---- MODULE Spec2Model ----
(***************************************************************************)
(* The notification edge functions of the storefront (checkout email,      *)
(* order confirmation email, cart activity email and push, web push) and   *)
(* the rows of the hosted store they read and delete.  One request is      *)
(* served at a time; every await of a handler is one step.                 *)
(***************************************************************************)
EXTENDS Integers, Sequences, FiniteSets, TLC

VARIABLES
    cart_items,          \* rows of table cart_items: <<user_id, row number>>
    cartAtStart,         \* the rows of cart_items when the request arrived
    push_subscriptions,  \* rows of table push_subscriptions
    req,                 \* the request being served
    pc,                  \* position in the handler (0: no request in flight)
    principal,           \* user resolved by auth.getUser(), "" before that
    parsed,              \* req.json() has been called
    pending,             \* rows the current fan-out has still to visit
    outstanding,         \* POSTs of the fan-out issued and not yet settled
    profile,             \* the row of profiles the handler has fetched
    results,             \* results.userNotificationSent / adminNotificationSent
    emailId,             \* emailResponse.data?.id of this request
    effects,             \* external calls issued by this request, in order
    trace,               \* stages this request has entered, in order
    resp,                \* the Response returned, status 0 while none
    rawText,             \* the argument of a call of sanitizeHtml
    sanitized,           \* the results the calls of sanitizeHtml have returned
    hooks,               \* the mounted usePushNotifications hooks
    pushManager,         \* the subscription the browser of each hook holds
    reviews,             \* the rows of the reviews table of one product
    reviewIds,           \* how many ids the reviews table has given out
    views,               \* the mounted ProductReviews components
    statement            \* the last statement sent to the reviews table

vars == <<cart_items, cartAtStart, push_subscriptions, req, pc, principal, parsed, pending,
          outstanding, profile, results, emailId, effects, trace, resp, rawText, sanitized,
          hooks, pushManager, reviews, reviewIds, views, statement>>

\* The state of a request in service, and the state outside the handlers.
handlerVars == <<cart_items, cartAtStart, req, pc, principal, parsed, pending, outstanding,
                 profile, results, emailId, effects, trace, resp>>
sanitizerVars == <<rawText, sanitized>>
hookVars == <<hooks, pushManager>>
reviewVars == <<reviews, reviewIds, views, statement>>
clientVars == <<sanitizerVars, hookVars, reviewVars>>

-----------------------------------------------------------------------------
(* Bounds *)

MaxLen == 2        \* longest cartItems array enumerated item by item
MaxCartRows == 2   \* cart rows a user starts with
MaxStr == 4        \* longest argument of sanitizeHtml enumerated

-----------------------------------------------------------------------------
(* Program constants *)

MaxCartItems == 50
MaxTitleLen == 200
MaxNameLen == 200
MinQuantity == 1
MaxQuantity == 100
MaxPrice == 1000000
MaxTotalPrice == 10000000
MaxNotificationTitle == 100
MaxNotificationBody == 500
MaxUrlLen == 500

-----------------------------------------------------------------------------
(* Identities *)

Users == {"u1", "u2"}
Admins == {"u2"}
AdminAddress == "admin@shop"

\* user.email of the principal the auth service returns
EmailOf(u) == IF u = "u1" THEN "u1@shop" ELSE IF u = "u2" THEN "u2@shop" ELSE ""

\* /^[0-9a-f]{8}-...$/i.test(str): the well-formed identifiers of the model
isValidUUID(str) == str \in Users

\* /^[^\s@]+@[^\s@]+\.[^\s@]+$/.test(email)
isValidEmail(email) == email \in {EmailOf(u) : u \in Users}

-----------------------------------------------------------------------------
(* JSON values: typeof and the number (for a string: its length) *)

JNum(n) == [t |-> "number", n |-> n]
JFrac(n) == [t |-> "number", n |-> n, frac |-> TRUE]   \* the number n + 1/2
JStr(len) == [t |-> "string", n |-> len]
JUndef == [t |-> "undefined", n |-> 0]

\* A string given by its characters; a string given by its length only
\* consists of letters.
JText(chars) == [t |-> "string", n |-> Len(chars), text |-> chars]
TextOf(v) == IF "text" \in DOMAIN v THEN v.text ELSE [i \in 1..v.n |-> "x"]
Markup == <<"<", "s", ">">>

Item(title, quantity, price) ==
    [isNull |-> FALSE, productTitle |-> title, quantity |-> quantity, price |-> price]
NullItem == [isNull |-> TRUE]

GoodItem == Item(JStr(11), JNum(2), JNum(1500))
ItemKinds ==
    { GoodItem, NullItem,
      Item(JStr(0), JNum(2), JNum(1500)),
      Item(JStr(11), JNum(0), JNum(1500)),
      Item(JStr(11), JNum(2), JNum(0)) }

RECURSIVE SeqsUpTo(_, _)
SeqsUpTo(S, n) ==
    IF n = 0 THEN {<<>>}
    ELSE LET shorter == SeqsUpTo(S, n - 1)
         IN  shorter \cup {Append(s, x) : s \in {q \in shorter : Len(q) = n - 1}, x \in S}

NotArray == [isArray |-> FALSE, items |-> <<>>]
LongArray == [isArray |-> TRUE, items |-> [i \in 1..(MaxCartItems + 1) |-> GoodItem]]
FullArray == [isArray |-> TRUE, items |-> [i \in 1..MaxCartItems |-> GoodItem]]
CartArrays ==
    {NotArray, LongArray, FullArray} \cup
    {[isArray |-> TRUE, items |-> s] : s \in SeqsUpTo(ItemKinds, MaxLen)}

Totals == {JUndef, JNum(0), JNum(3000), JNum(MaxTotalPrice + 1)}

\* Items with a quantity or a price at, next to or outside the limits, or not
\* of the type: a string, a missing field, a fraction.
LimitItems ==
    {Item(JStr(11), q, JNum(1500)) :
        q \in {JNum(MinQuantity), JNum(MaxQuantity), JNum(MaxQuantity + 1), JNum(-1),
               JFrac(1), JStr(1), JUndef}} \cup
    {Item(JStr(11), JNum(2), p) :
        p \in {JNum(MaxPrice), JNum(MaxPrice + 1), JNum(-1), JFrac(0), JFrac(MaxPrice),
               JStr(4), JUndef}}

\* Arrays with an item whose title holds markup.
MarkupItem == Item(JText(Markup), JNum(2), JNum(1500))
MarkupCarts ==
    {[isArray |-> TRUE, items |-> s] : s \in {<<MarkupItem>>, <<GoodItem, MarkupItem>>}}

\* Arrays with an item of LimitItems alone, after an acceptable item, and
\* after a null entry.
LimitCarts ==
    {[isArray |-> TRUE, items |-> s] :
        s \in {<<k>> : k \in LimitItems} \cup {<<GoodItem, k>> : k \in LimitItems}
              \cup {<<NullItem, k>> : k \in LimitItems}}

\* Totals at, next to or outside the limits, or not a number.
LimitTotals ==
    {JNum(MaxTotalPrice), JFrac(MaxTotalPrice), JFrac(0), JNum(-1), JStr(4)}

\* The carts and totals of the payloads: every cart with every total of
\* Totals, the carts of LimitCarts with an acceptable total, an acceptable
\* cart or a cart with a null entry with the totals of LimitTotals.
CartsAndTotals ==
    (CartArrays \X Totals) \cup ((LimitCarts \cup MarkupCarts) \X {JNum(3000)}) \cup
    ({[isArray |-> TRUE, items |-> <<GoodItem>>],
      [isArray |-> TRUE, items |-> <<NullItem>>]} \X LimitTotals)

-----------------------------------------------------------------------------
(* Requests *)

CN == "checkout-notification"
SCC == "send-checkout-confirmation"
SCCLegacy == "send-checkout-confirmation-legacy"
SCNResend == "send-cart-notification-resend"
SPN == "send-push-notification"
SPNLegacy == "send-push-notification-legacy"
SCNFcm == "send-cart-notification"

EmailHandlers == {CN, SCC, SCCLegacy, SCNResend}
PushHandlers == {SPN, SPNLegacy}
Handlers == EmailHandlers \cup PushHandlers \cup {SCNFcm}

\* The Authorization header: absent, or 'Bearer ' followed by a token.  A
\* token is the name of the user it belongs to; any other token is unknown
\* to the auth service.
AuthHeaders ==
    {[scheme |-> "none", token |-> ""]} \cup
    {[scheme |-> "Bearer", token |-> t] : t \in Users \cup {"bad"}}

\* authHeader?.startsWith('Bearer ')
startsWithBearer(authHeader) == authHeader.scheme = "Bearer"

\* The secrets a handler reads with Deno.env.get and tests.  SUPABASE_URL and
\* the two SUPABASE_*_KEY values are injected by the platform and read with a
\* non-null assertion, so they are present in every environment.
SecretsRead(h) ==
    CASE h \in {CN, SCNResend} -> {"RESEND_API_KEY", "ADMIN_EMAIL"}
      [] h \in {SCC, SCCLegacy} -> {"RESEND_API_KEY"}
      [] h \in PushHandlers -> {"VAPID_PUBLIC_KEY", "VAPID_PRIVATE_KEY"}
      [] h = SCNFcm -> {"FIREBASE_SERVER_KEY"}

AllSecrets ==
    {"RESEND_API_KEY", "ADMIN_EMAIL", "VAPID_PUBLIC_KEY", "VAPID_PRIVATE_KEY",
     "FIREBASE_SERVER_KEY"}

\* Environments of a handler: any of the secrets it reads may be unset.
Envs(h) == {AllSecrets \ missing : missing \in SUBSET SecretsRead(h)}

InvalidBody == [kind |-> "invalid"]   \* req.json() rejects with a SyntaxError
NullBody == [kind |-> "null"]         \* the JSON text null

OwnerIds == {"", "not-a-uuid"} \cup Users
OwnerEmails == {"", "not-an-email"} \cup {EmailOf(u) : u \in Users}
UserNames == {JUndef, JStr(4)}

\* A notification of the push payload: absent (undefined, null, or another
\* falsy value), or an object with title, body and url.  A value that is not
\* an object reads like an object without any of the three.
Notification(title, body, url) ==
    [present |-> TRUE, title |-> title, body |-> body, url |-> url]
Absent == [present |-> FALSE]
PlainNotification == Notification(JStr(5), JStr(20), JUndef)
LongBody == Notification(JStr(5), JStr(MaxNotificationBody + 1), JUndef)

Notifications ==
    { Absent, PlainNotification, LongBody,
      Notification(JStr(MaxNotificationTitle), JStr(MaxNotificationBody), JStr(MaxUrlLen)),
      Notification(JStr(5), JStr(20), JStr(0)),
      Notification(JStr(MaxNotificationTitle + 1), JStr(20), JUndef),
      Notification(JStr(0), JStr(20), JUndef),
      Notification(JUndef, JStr(20), JUndef),
      Notification(JNum(7), JStr(20), JUndef),
      Notification(JStr(5), JStr(0), JUndef),
      Notification(JStr(5), JUndef, JUndef),
      Notification(JStr(5), JStr(20), JStr(MaxUrlLen + 1)),
      Notification(JStr(5), JStr(20), JNum(7)) }

\* The legacy handler tests a notification for presence only and never reads
\* its fields.
LegacyNotifications == {Absent, PlainNotification, LongBody}

\* A body that is a JSON number or string destructures like {} : every field
\* undefined; the object payloads with every field missing stand for these.
CheckoutPayloads ==
    {InvalidBody, NullBody} \cup
    {[kind |-> "object", userId |-> u, cartItems |-> ct[1], totalPrice |-> ct[2]] :
        u \in OwnerIds, ct \in CartsAndTotals}

ConfirmationPayloads ==
    {InvalidBody, NullBody} \cup
    {[kind |-> "object", userEmail |-> u, userName |-> n, cartItems |-> ct[1],
      totalPrice |-> ct[2]] :
        u \in OwnerEmails, n \in UserNames, ct \in CartsAndTotals} \cup
    {[kind |-> "object", userEmail |-> u, userName |-> JText(Markup), cartItems |-> c,
      totalPrice |-> JNum(3000)] :
        u \in OwnerEmails, c \in MarkupCarts \cup {[isArray |-> TRUE, items |-> <<GoodItem>>]}}

CartNotificationPayloads ==
    {InvalidBody, NullBody} \cup
    [kind : {"object"}, userId : OwnerIds, productTitle : {JStr(11), JText(Markup)}]

\* { userId, productTitle, quantity } of the cart activity push: quantity
\* missing, or a number.
ActivityPayloads ==
    {InvalidBody, NullBody} \cup
    [kind : {"object"}, userId : OwnerIds, quantity : {JUndef, JNum(2)}]

PushPayloads(notifications) ==
    {InvalidBody, NullBody} \cup
    [kind : {"object"}, userId : OwnerIds, notifyAdmin : BOOLEAN,
     userNotification : notifications, adminNotification : notifications]

Payloads(h) ==
    CASE h = CN -> CheckoutPayloads
      [] h \in {SCC, SCCLegacy} -> ConfirmationPayloads
      [] h = SCNResend -> CartNotificationPayloads
      [] h = SPN -> PushPayloads(Notifications)
      [] h = SPNLegacy -> PushPayloads(LegacyNotifications)
      [] h = SCNFcm -> ActivityPayloads

AuthenticatedHandlers == {CN, SCC, SPN}

\* The handlers without an authentication check never read the header: their
\* requests come without one or with the token of a user.
HeadersOf(h) ==
    IF h \in AuthenticatedHandlers THEN AuthHeaders
    ELSE {[scheme |-> "none", token |-> ""], [scheme |-> "Bearer", token |-> "u1"]}

Requests ==
    UNION {[handler : {h}, method : {"POST"}, authHeader : HeadersOf(h), env : Envs(h),
            body : Payloads(h)]
           : h \in Handlers}

\* The preflight requests of the browsers, one for each handler.
Preflights ==
    {[handler |-> h, method |-> "OPTIONS", authHeader |-> [scheme |-> "none", token |-> ""],
      env |-> AllSecrets, body |-> InvalidBody] : h \in Handlers}

\* The identity the payload names: userId, or userEmail for the confirmation
\* email; "" when the body has none.
PayloadOwner(r) ==
    IF r.body.kind # "object" THEN ""
    ELSE IF r.handler \in {SCC, SCCLegacy} THEN r.body.userEmail
    ELSE r.body.userId

\* user.id, or user.email for the confirmation email
PrincipalIdentity(h, user) ==
    IF user = "" THEN "" ELSE IF h = SCC THEN EmailOf(user) ELSE user

-----------------------------------------------------------------------------
(* Validation *)

Pass == [status |-> 0, error |-> ""]
Reject(reason) == [status |-> 400, error |-> reason]
Thrown(message) == [status |-> 500, error |-> message]

\* Number.isInteger(v)
IsInteger(v) == v.t = "number" /\ "frac" \notin DOMAIN v

\* v > k for a number v
Above(v, k) == v.n > k \/ (v.n = k /\ ~IsInteger(v))

\* !item.productTitle || typeof item.productTitle !== 'string' || length > 200
InvalidTitle(v) == v.t # "string" \/ v.n = 0 \/ v.n > MaxTitleLen

\* !Number.isInteger(item.quantity) || item.quantity < 1 || item.quantity > 100
InvalidQuantity(v) == ~IsInteger(v) \/ v.n < MinQuantity \/ v.n > MaxQuantity

\* typeof item.price !== 'number' || item.price <= 0 || item.price > 1000000
InvalidPrice(v) == v.t # "number" \/ ~Above(v, 0) \/ Above(v, MaxPrice)

\* typeof totalPrice !== 'number' || totalPrice <= 0 || totalPrice > 10000000
InvalidTotalPrice(v) == v.t # "number" \/ ~Above(v, 0) \/ Above(v, MaxTotalPrice)

\* !userName || typeof userName !== 'string' || userName.length > 200
InvalidUserName(v) == v.t # "string" \/ v.n = 0 \/ v.n > MaxNameLen

\* The length of the array has no upper limit.
InvalidCartItemsNoLimit(c) == ~c.isArray \/ Len(c.items) = 0

\* !Array.isArray(cartItems) || cartItems.length === 0 || cartItems.length > 50
InvalidCartItems(c) == ~c.isArray \/ Len(c.items) = 0 \/ Len(c.items) > MaxCartItems

\* The body of the loop over cartItems: reading a property of a null entry
\* throws a TypeError, which the handler's catch turns into status 500.
ItemCheck(item) ==
    IF item.isNull THEN Thrown("TypeError")
    ELSE IF InvalidTitle(item.productTitle) THEN Reject("Invalid product title")
    ELSE IF InvalidQuantity(item.quantity) THEN Reject("Invalid quantity")
    ELSE IF InvalidPrice(item.price) THEN Reject("Invalid price")
    ELSE Pass

\* for (const item of cartItems): the first entry that returns or throws
RECURSIVE ItemsCheck(_)
ItemsCheck(items) ==
    IF items = <<>> THEN Pass
    ELSE IF ItemCheck(Head(items)) # Pass THEN ItemCheck(Head(items))
    ELSE ItemsCheck(Tail(items))

\* The checks on cartItems, each item and totalPrice that follow the
\* ownership check.
ValidateCart(body) ==
    IF InvalidCartItems(body.cartItems)
    THEN Reject("Invalid cartItems: must be array with 1-50 items")
    ELSE IF ItemsCheck(body.cartItems.items) # Pass THEN ItemsCheck(body.cartItems.items)
    ELSE IF InvalidTotalPrice(body.totalPrice) THEN Reject("Invalid totalPrice")
    ELSE Pass

\* send-checkout-confirmation checks userName before the cart.
ValidateConfirmation(body) ==
    IF InvalidUserName(body.userName) THEN Reject("Invalid userName")
    ELSE ValidateCart(body)

\* if (v): neither undefined, nor '', nor 0
Truthy(v) == v.t # "undefined" /\ ~(v.t \in {"string", "number"} /\ v.n = 0 /\ "frac" \notin DOMAIN v)

\* The body is not checked against a length.
validateNotificationNoBodyLimit(notification) ==
    /\ ~(notification.title.t # "string" \/ notification.title.n = 0
          \/ notification.title.n > MaxNotificationTitle)
    /\ ~(notification.body.t # "string" \/ notification.body.n = 0)
    /\ ~(Truthy(notification.url) /\
          (notification.url.t # "string" \/ notification.url.n > MaxUrlLen))

\* validateNotification(notification): title and body non-empty strings of at
\* most 100 and 500 characters, url absent, empty or a string of at most 500
validateNotification(notification) ==
    /\ ~(notification.title.t # "string" \/ notification.title.n = 0
          \/ notification.title.n > MaxNotificationTitle)
    /\ ~(notification.body.t # "string" \/ notification.body.n = 0
          \/ notification.body.n > MaxNotificationBody)
    /\ ~(Truthy(notification.url) /\
          (notification.url.t # "string" \/ notification.url.n > MaxUrlLen))

\* payload.userNotification && !validateNotification(...), then the same for
\* adminNotification
ValidatePush(body) ==
    IF body.userNotification.present /\ ~validateNotification(body.userNotification)
    THEN Reject("Invalid userNotification content")
    ELSE IF body.adminNotification.present /\ ~validateNotification(body.adminNotification)
    THEN Reject("Invalid adminNotification content")
    ELSE Pass

\* The legacy confirmation handler validates nothing: cartItems.map, the
\* property reads and toFixed of the template throw on the shapes they cannot
\* handle.
RECURSIVE RenderItems(_)
RenderItems(items) ==
    IF items = <<>> THEN Pass
    ELSE IF Head(items).isNull \/ Head(items).price.t # "number" THEN Thrown("TypeError")
    ELSE RenderItems(Tail(items))

RenderLegacy(body) ==
    IF ~body.cartItems.isArray THEN Thrown("TypeError")
    ELSE IF RenderItems(body.cartItems.items) # Pass THEN Thrown("TypeError")
    ELSE IF body.totalPrice.t # "number" THEN Thrown("TypeError")
    ELSE Pass

\* !userId || !isValidUUID(userId), and !userEmail || !isValidEmail(userEmail)
OwnerCheck(h, body) ==
    IF h = SCC
    THEN IF body.userEmail = "" \/ ~isValidEmail(body.userEmail)
         THEN Reject("Invalid email format") ELSE Pass
    ELSE IF body.userId = "" \/ ~isValidUUID(body.userId)
         THEN Reject("Invalid userId format") ELSE Pass

\* The ownership test left out.
ForbiddenNever(h, user, owner) == FALSE

\* authenticatedUserId !== userId, authenticatedUserEmail !== userEmail
Forbidden(h, user, owner) == PrincipalIdentity(h, user) # owner

ForbiddenMessage(h) ==
    CASE h = CN -> "Forbidden: Cannot checkout for another user"
      [] h = SCC -> "Forbidden: Cannot send notifications to a different email"
      [] OTHER -> "Forbidden: Cannot send notifications for another user"

\* auth.getUser(): the user the token belongs to, "" for error or no user
getUser(authHeader) == IF authHeader.token \in Users THEN authHeader.token ELSE ""

\* The result of getUser not tested.
UnauthenticatedNever(user) == FALSE

\* userError || !user
Unauthenticated(user) == user = ""

-----------------------------------------------------------------------------
(* The handlers: the order of their steps *)

\* The cart cleared before the email is sent.
ProgramClearFirst(h) ==
    CASE h = CN ->
           <<"authHeader", "getUser", "secrets", "parse", "validateOwner", "authorize",
             "validate", "profile", "clearCart", "email", "respond">>
      [] h = SCC ->
           <<"authHeader", "getUser", "secrets", "parse", "validateOwner", "authorize",
             "validate", "email", "respond">>
      [] h = SCCLegacy -> <<"secrets", "parse", "render", "email", "respond">>
      [] h = SCNResend -> <<"secrets", "parse", "profile", "email", "respond">>
      [] h = SPN ->
           <<"authHeader", "getUser", "secrets", "parse", "validateOwner", "authorize",
             "validate", "userSubs", "userPush", "adminRoles", "adminSubs", "adminPush",
             "respond">>
      [] h = SPNLegacy ->
           <<"secrets", "parse", "userSubs", "userPush", "adminRoles", "adminSubs",
             "adminPush", "respond">>
      [] h = SCNFcm -> <<"secrets", "parse", "tokens", "fcm", "respond">>

\* The cart and the total validated after the profile is fetched.
ProgramValidateLate(h) ==
    CASE h = CN ->
           <<"authHeader", "getUser", "secrets", "parse", "validateOwner", "authorize",
             "profile", "validate", "email", "clearCart", "respond">>
      [] h = SCC ->
           <<"authHeader", "getUser", "secrets", "parse", "validateOwner", "authorize",
             "validate", "email", "respond">>
      [] h = SCCLegacy -> <<"secrets", "parse", "render", "email", "respond">>
      [] h = SCNResend -> <<"secrets", "parse", "profile", "email", "respond">>
      [] h = SPN ->
           <<"authHeader", "getUser", "secrets", "parse", "validateOwner", "authorize",
             "validate", "userSubs", "userPush", "adminRoles", "adminSubs", "adminPush",
             "respond">>
      [] h = SPNLegacy ->
           <<"secrets", "parse", "userSubs", "userPush", "adminRoles", "adminSubs",
             "adminPush", "respond">>
      [] h = SCNFcm -> <<"secrets", "parse", "tokens", "fcm", "respond">>

Program(h) ==
    CASE h = CN ->
           <<"authHeader", "getUser", "secrets", "parse", "validateOwner", "authorize",
             "validate", "profile", "email", "clearCart", "respond">>
      [] h = SCC ->
           <<"authHeader", "getUser", "secrets", "parse", "validateOwner", "authorize",
             "validate", "email", "respond">>
      [] h = SCCLegacy -> <<"secrets", "parse", "render", "email", "respond">>
      [] h = SCNResend -> <<"secrets", "parse", "profile", "email", "respond">>
      [] h = SPN ->
           <<"authHeader", "getUser", "secrets", "parse", "validateOwner", "authorize",
             "validate", "userSubs", "userPush", "adminRoles", "adminSubs", "adminPush",
             "respond">>
      [] h = SPNLegacy ->
           <<"secrets", "parse", "userSubs", "userPush", "adminRoles", "adminSubs",
             "adminPush", "respond">>
      [] h = SCNFcm -> <<"secrets", "parse", "tokens", "fcm", "respond">>

\* The step the request is at; "" when no request is in flight.
Step ==
    IF req.method = "POST" /\ pc >= 1 /\ pc <= Len(Program(req.handler))
    THEN Program(req.handler)[pc] ELSE ""

\* Position of a step in the handler of the current request.
PcOf(step) ==
    CHOOSE i \in 1..Len(Program(req.handler)) : Program(req.handler)[i] = step

NoResponse == [status |-> 0, body |-> [none |-> TRUE]]
Unauthorized == [status |-> 401, body |-> [error |-> "Unauthorized"]]
ErrorResponse(status, message) == [status |-> status, body |-> [error |-> message]]

\* catch (error): status 500 with the message of the error
Caught(message) == ErrorResponse(500, message)

\* A thrown error that nothing catches: the invocation ends without a response.
OutcomeUncaught(check) ==
    IF check = Pass
    THEN pc' = pc + 1 /\ resp' = resp
    ELSE IF check.status = 500
    THEN pc' = 0 /\ resp' = resp
    ELSE pc' = 0 /\ resp' = ErrorResponse(check.status, check.error)

\* The outcome of a check: go on, or return/throw its response.
Outcome(check) ==
    IF check = Pass
    THEN pc' = pc + 1 /\ resp' = resp
    ELSE pc' = 0 /\ resp' = ErrorResponse(check.status, check.error)

Enter(step) == trace' = Append(trace, step)

-----------------------------------------------------------------------------
(* The HTML of the emails *)

Amp == <<"&", "a", "m", "p", ";">>
Lt == <<"&", "l", "t", ";">>
Gt == <<"&", "g", "t", ";">>
Quot == <<"&", "q", "u", "o", "t", ";">>
Apos == <<"&", "#", "0", "3", "9", ";">>

\* Every ch of str replaced by entity, from the first character on.
RECURSIVE ReplaceEach(_, _, _)
ReplaceEach(str, ch, entity) ==
    IF str = <<>> THEN <<>>
    ELSE (IF Head(str) = ch THEN entity ELSE <<Head(str)>>)
             \o ReplaceEach(Tail(str), ch, entity)

\* str.replace(/ch/g, entity); str is evaluated once, as the receiver of the
\* call is.
Replace(str, ch, entity) ==
    CHOOSE out \in {ReplaceEach(s, ch, entity) : s \in {str}} : TRUE

\* The ampersand replaced last.
sanitizeHtmlAmpLast(str) ==
    Replace(Replace(Replace(Replace(Replace(str, "<", Lt), ">", Gt), "\"", Quot),
                    "'", Apos), "&", Amp)

\* The five replacements of sanitizeHtml, in the order of the source.
sanitizeHtml(str) ==
    Replace(Replace(Replace(Replace(Replace(str, "&", Amp), "<", Lt), ">", Gt),
                    "\"", Quot), "'", Apos)

\* ${v} in a template literal: a string as it is, any other value as the
\* text of its conversion, which holds letters and digits only.
Interpolated(v) == IF v.t = "string" THEN TextOf(v) ELSE <<"x">>

\* v || 'A customer' (or 'Unknown', 'Not provided'): the default is a literal
\* of the source.
OrDefault(v) == IF v.t = "string" /\ v.n > 0 THEN TextOf(v) ELSE <<"x">>

\* The row of profiles, or none: maybeSingle() gives null when no row matches
\* and when the query fails.
NoProfile == [found |-> FALSE, full_name |-> JUndef, email |-> JUndef, phone_number |-> JUndef]
Profile(name, email, phone) ==
    [found |-> TRUE, full_name |-> name, email |-> email, phone_number |-> phone]
Profiles(userId) ==
    IF userId \notin Users THEN {NoProfile}
    ELSE { NoProfile,
           Profile(JStr(4), JStr(7), JUndef),
           Profile(JText(Markup), JText(<<"a", "&", "b">>), JText(<<"'", "\"">>)) }

\* The user-controlled strings of the request and of the profile as the
\* handler embeds them in the subject and the html of the email, in the
\* order of the template.
Embedded(h, body, row) ==
    LET titles(f(_)) == [i \in DOMAIN body.cartItems.items |->
                           f(body.cartItems.items[i].productTitle)]
        escaped(v) == sanitizeHtml(TextOf(v))
    IN  CASE h = CN ->
               << sanitizeHtml(OrDefault(row.full_name)),
                  sanitizeHtml(OrDefault(row.email)),
                  sanitizeHtml(OrDefault(row.phone_number)) >> \o titles(escaped)
          [] h = SCC -> <<sanitizeHtml(TextOf(body.userName))>> \o titles(escaped)
          [] h = SCCLegacy -> <<Interpolated(body.userName)>> \o titles(Interpolated)
          [] h = SCNResend ->
               << OrDefault(row.full_name), Interpolated(body.productTitle),
                  OrDefault(row.email) >>

-----------------------------------------------------------------------------
(* Rows *)

RowsOf(u) == {<<u, k>> : k \in 1..MaxCartRows}

\* Only one row of the user deleted.
DeleteOneCartRow(rows, userId) == rows \ {<<userId, 1>>}

\* The delete without its filter on user_id.
DeleteEveryCartRow(rows, userId) == {}

\* .from('cart_items').delete().eq('user_id', userId)
DeleteCartRows(rows, userId) == {row \in rows : row[1] # userId}

Sub(id, u, e, k) == [id |-> id, user_id |-> u, endpoint |-> e, p256dh |-> k]
InitialSubscriptions ==
    {Sub(1, "u1", "e1", "k1"), Sub(2, "u1", "e2", "k1"), Sub(3, "u2", "e3", "k1")}

\* The orders in which a select may return a set of rows.
RowOrders(rows) ==
    {s \in [1..Cardinality(rows) -> rows] : \A i, j \in DOMAIN s : i # j => s[i] # s[j]}

\* Outcomes of the POST to a push endpoint: a status, or 0 when fetch throws.
PushStatuses == {200, 299, 300, 404, 410, 500, 0}

\* Outcomes of resend.emails.send: the email is accepted ({data: {id}}), the
\* API answers with an error ({data: null, error}), or the call throws.
EmailOutcomes == {"sent", "rejected", "threw"}

\* Outcomes of the cart_items delete: {error: null} or {error}.
DeleteOutcomes == {"ok", "error"}

InitialRequest ==
    [handler |-> CN, method |-> "POST", authHeader |-> [scheme |-> "none", token |-> ""],
     env |-> AllSecrets, body |-> InvalidBody]
NoResults == [userNotificationSent |-> FALSE, adminNotificationSent |-> FALSE]

ServerInit ==
    /\ cart_items = UNION {RowsOf(u) : u \in Users}
    /\ cartAtStart = cart_items
    /\ push_subscriptions = InitialSubscriptions
    /\ req = InitialRequest
    /\ pc = 0
    /\ principal = ""
    /\ parsed = FALSE
    /\ pending = <<>>
    /\ outstanding = {}
    /\ profile = NoProfile
    /\ results = NoResults
    /\ emailId = "undefined"
    /\ effects = <<>>
    /\ trace = <<>>
    /\ resp = NoResponse

\* No call of sanitizeHtml is being looked at.
SanitizerIdle == rawText = <<>> /\ sanitized = <<>>

\* The browsers with a mounted hook, each with the user signed in there.
HookIds == {"h1", "h2"}
NoSubscription == [endpoint |-> "", p256dh |-> ""]
\* reached: whether the last statement of the hook got to the table.
Mounted(user) ==
    [user |-> user, subscription |-> NoSubscription, at |-> "idle", reached |-> FALSE]

\* Every hook belongs to the first user and has done nothing.
HooksIdle ==
    /\ hooks = [h \in HookIds |-> Mounted("u1")]
    /\ pushManager = [h \in HookIds |-> NoSubscription]

\* The mounted ProductReviews components, each with the user signed in
\* there; mounting calls fetchReviews.
ViewIds == {"v1", "v2"}
View(user) ==
    [user |-> user, rating |-> 0, userReview |-> 0, listed |-> {}, fetch |-> "sent"]

\* No review is stored and every component belongs to the first user.
ReviewsIdle ==
    /\ reviews = {}
    /\ reviewIds = 0
    /\ views = [v \in ViewIds |-> View("u1")]
    /\ statement = <<>>

Init == ServerInit /\ SanitizerIdle /\ HooksIdle /\ ReviewsIdle

-----------------------------------------------------------------------------
(* Steps *)

\* serve(async (req) => ...): the runtime starts an invocation for a request.
Receive ==
    /\ pc = 0
    /\ resp = NoResponse
    /\ \E r \in Requests : req' = r
    /\ pc' = 1
    /\ trace' = <<"received">>
    /\ cartAtStart' = cart_items
    /\ UNCHANGED <<cart_items, push_subscriptions, outstanding, principal, parsed,
                   pending, results, emailId, effects, resp, profile>>
    /\ UNCHANGED clientVars

\* The invocation ends once its Response is returned: nothing of it but the
\* rows of the store is kept for the next one.
Complete ==
    /\ pc = 0
    /\ resp # NoResponse
    /\ req' = InitialRequest
    /\ principal' = ""
    /\ parsed' = FALSE
    /\ pending' = <<>>
    /\ outstanding' = {}
    /\ profile' = NoProfile
    /\ results' = NoResults
    /\ emailId' = "undefined"
    /\ effects' = <<>>
    /\ trace' = <<>>
    /\ resp' = NoResponse
    /\ cartAtStart' = cart_items
    /\ UNCHANGED <<cart_items, push_subscriptions, pc>>
    /\ UNCHANGED clientVars

\* if (!authHeader?.startsWith('Bearer ')) return 401
CheckAuthHeader ==
    /\ Step = "authHeader"
    /\ Enter("authHeader")
    /\ IF startsWithBearer(req.authHeader)
       THEN pc' = pc + 1 /\ resp' = resp
       ELSE pc' = 0 /\ resp' = Unauthorized
    /\ UNCHANGED <<cart_items, cartAtStart, push_subscriptions, outstanding, req,
                   principal, parsed, pending, results, emailId, effects, profile>>
    /\ UNCHANGED clientVars

\* await authSupabase.auth.getUser(); if (userError || !user) return 401
Authenticate ==
    /\ Step = "getUser"
    /\ Enter("getUser")
    /\ effects' = Append(effects, [op |-> "getUser"])
    /\ IF Unauthenticated(getUser(req.authHeader))
       THEN pc' = 0 /\ resp' = Unauthorized /\ principal' = principal
       ELSE pc' = pc + 1 /\ resp' = resp /\ principal' = getUser(req.authHeader)
    /\ UNCHANGED <<cart_items, cartAtStart, push_subscriptions, outstanding, req,
                   parsed, pending, results, emailId, profile>>
    /\ UNCHANGED clientVars

\* ADMIN_EMAIL is read and never tested.
SecretsCheckKeyOnly(h, env) ==
    IF h \in PushHandlers
    THEN IF {"VAPID_PUBLIC_KEY", "VAPID_PRIVATE_KEY"} \subseteq env
         THEN Pass ELSE Thrown("VAPID keys not configured")
    ELSE IF h = SCNFcm
    THEN IF "FIREBASE_SERVER_KEY" \in env
         THEN Pass ELSE Thrown("FIREBASE_SERVER_KEY is not configured")
    ELSE IF "RESEND_API_KEY" \notin env THEN Thrown("RESEND_API_KEY is not configured")
    ELSE Pass

\* The tests of the secrets: the email handlers throw, the push handlers
\* return status 500.
SecretsCheck(h, env) ==
    IF h \in PushHandlers
    THEN IF {"VAPID_PUBLIC_KEY", "VAPID_PRIVATE_KEY"} \subseteq env
         THEN Pass ELSE Thrown("VAPID keys not configured")
    ELSE IF h = SCNFcm
    THEN IF "FIREBASE_SERVER_KEY" \in env
         THEN Pass ELSE Thrown("FIREBASE_SERVER_KEY is not configured")
    ELSE IF "RESEND_API_KEY" \notin env THEN Thrown("RESEND_API_KEY is not configured")
    ELSE IF h \in {CN, SCNResend} /\ "ADMIN_EMAIL" \notin env
    THEN Thrown("ADMIN_EMAIL is not configured")
    ELSE Pass

CheckSecrets ==
    /\ Step = "secrets"
    /\ Enter("secrets")
    /\ Outcome(SecretsCheck(req.handler, req.env))
    /\ UNCHANGED <<cart_items, cartAtStart, push_subscriptions, outstanding, req,
                   principal, parsed, pending, results, emailId, effects, profile>>
    /\ UNCHANGED clientVars

\* await req.json(), and the destructuring of the payload where the handler
\* destructures it: invalid JSON rejects, destructuring null throws.
ParseCheck(h, body) ==
    IF body.kind = "invalid" THEN Thrown("SyntaxError")
    ELSE IF body.kind = "null" /\ h \notin PushHandlers THEN Thrown("TypeError")
    ELSE Pass

ParsePayload ==
    /\ Step = "parse"
    /\ Enter("parse")
    /\ parsed' = TRUE
    /\ Outcome(ParseCheck(req.handler, req.body))
    /\ UNCHANGED <<cart_items, cartAtStart, push_subscriptions, outstanding, req,
                   principal, pending, results, emailId, effects, profile>>
    /\ UNCHANGED clientVars

\* The format check of userId / userEmail; payload.userId of a null payload
\* throws in the push handler.
ValidateOwner ==
    /\ Step = "validateOwner"
    /\ Enter("validateOwner")
    /\ Outcome(IF req.body.kind = "null" THEN Thrown("TypeError")
               ELSE OwnerCheck(req.handler, req.body))
    /\ UNCHANGED <<cart_items, cartAtStart, push_subscriptions, outstanding, req,
                   principal, parsed, pending, results, emailId, effects, profile>>
    /\ UNCHANGED clientVars

\* if (authenticatedUserId !== userId) return 403
Authorize ==
    /\ Step = "authorize"
    /\ Enter("authorize")
    /\ IF Forbidden(req.handler, principal, PayloadOwner(req))
       THEN pc' = 0 /\ resp' = ErrorResponse(403, ForbiddenMessage(req.handler))
       ELSE pc' = pc + 1 /\ resp' = resp
    /\ UNCHANGED <<cart_items, cartAtStart, push_subscriptions, outstanding, req,
                   principal, parsed, pending, results, emailId, effects, profile>>
    /\ UNCHANGED clientVars

\* The remaining checks of the payload.
Validation(h, body) ==
    CASE h = CN -> ValidateCart(body)
      [] h = SCC -> ValidateConfirmation(body)
      [] OTHER -> ValidatePush(body)

Validate ==
    /\ Step = "validate"
    /\ Enter("validate")
    /\ Outcome(Validation(req.handler, req.body))
    /\ UNCHANGED <<cart_items, cartAtStart, push_subscriptions, outstanding, req,
                   principal, parsed, pending, results, emailId, effects, profile>>
    /\ UNCHANGED clientVars

\* cartItems.map(...) and the template of the legacy confirmation handler
Render ==
    /\ Step = "render"
    /\ Enter("render")
    /\ Outcome(RenderLegacy(req.body))
    /\ UNCHANGED <<cart_items, cartAtStart, push_subscriptions, outstanding, req,
                   principal, parsed, pending, results, emailId, effects, profile>>
    /\ UNCHANGED clientVars

\* await supabase.from('profiles').select(...).eq('id', userId).maybeSingle()
FetchProfile ==
    /\ Step = "profile"
    /\ Enter("profile")
    /\ effects' = Append(effects, [op |-> "profileRead", id |-> req.body.userId])
    /\ \E row \in Profiles(req.body.userId) : profile' = row
    /\ pc' = pc + 1
    /\ UNCHANGED <<cart_items, cartAtStart, push_subscriptions, outstanding, req,
                   principal, parsed, pending, results, emailId, resp>>
    /\ UNCHANGED clientVars

\* to: [adminEmail] or to: [userEmail]
Recipient(r) == IF r.handler \in {CN, SCNResend} THEN AdminAddress ELSE r.body.userEmail

\* emailResponse.data?.id
EmailIdOf(outcome) == IF outcome = "sent" THEN "email-id" ELSE "undefined"

\* What the handler does with the result of resend.emails.send: a rejected
\* promise reaches the catch, a resolved one is not inspected.
AfterSend(outcome) == IF outcome = "threw" THEN Thrown("provider error") ELSE Pass

\* await resend.emails.send({...})
SendEmail ==
    /\ Step = "email"
    /\ Enter("email")
    /\ \E outcome \in EmailOutcomes :
         /\ effects' = Append(effects, [op |-> "email", to |-> Recipient(req),
                                        about |-> PayloadOwner(req), outcome |-> outcome,
                                        html |-> Embedded(req.handler, req.body, profile)])
         /\ emailId' = EmailIdOf(outcome)
         /\ Outcome(AfterSend(outcome))
    /\ UNCHANGED <<cart_items, cartAtStart, push_subscriptions, outstanding, req,
                   principal, parsed, pending, results, profile>>
    /\ UNCHANGED clientVars

\* The delete error thrown instead of logged.
AfterDeleteThrows(outcome) == IF outcome = "error" THEN Thrown("delete failed") ELSE Pass

\* if (deleteError) console.error(...): the error is logged and the handler
\* goes on.
AfterDelete(outcome) == Pass

\* await supabase.from('cart_items').delete().eq('user_id', userId)
ClearCart ==
    /\ Step = "clearCart"
    /\ Enter("clearCart")
    /\ \E outcome \in DeleteOutcomes :
         /\ effects' = Append(effects, [op |-> "cartDelete", user_id |-> req.body.userId,
                                        outcome |-> outcome])
         /\ cart_items' = IF outcome = "ok"
                          THEN DeleteCartRows(cart_items, req.body.userId)
                          ELSE cart_items
         /\ Outcome(AfterDelete(outcome))
    /\ UNCHANGED <<cartAtStart, push_subscriptions, outstanding, req, principal,
                   parsed, pending, results, emailId, profile>>
    /\ UNCHANGED clientVars

\* The body of the success response.
SuccessBody(h) ==
    IF h \in PushHandlers
    THEN [success |-> TRUE, userNotificationSent |-> results.userNotificationSent,
          adminNotificationSent |-> results.adminNotificationSent]
    ELSE IF h = SCNFcm
    THEN [success |-> TRUE, results |-> Len(SelectSeq(effects, LAMBDA e : e.op = "fcmDone"))]
    ELSE [success |-> TRUE, emailId |-> emailId]

\* return new Response(JSON.stringify({ success: true, ... }))
Respond ==
    /\ Step = "respond"
    /\ Enter("respond")
    /\ resp' = [status |-> 200, body |-> SuccessBody(req.handler)]
    /\ pc' = 0
    /\ UNCHANGED <<cart_items, cartAtStart, push_subscriptions, outstanding, req,
                   principal, parsed, pending, results, emailId, effects, profile>>
    /\ UNCHANGED clientVars

-----------------------------------------------------------------------------
(* Push fan-out *)

\* Every answer of the push service counts as sent.
sendSimplePushAnyAnswer(status) == status # 0

\* response.status >= 200 && response.status < 300; every other status and a
\* thrown fetch give false
sendSimplePush(status) == status >= 200 /\ status < 300

\* An error of fetch leaves sendSimplePush.
PushThrowsOnFetchError(status) == status = 0

\* try { ... } catch (error) { return false }: no outcome of the POST leaves
\* sendSimplePush as an exception.
PushThrows(status) == FALSE

\* A subscription answered 404 or 410 is deleted.
PruneExpired(rows, endpoint, status) ==
    IF status \in {404, 410} THEN {row \in rows : row.endpoint # endpoint} ELSE rows

\* response.status === 404 || 410: the expiry is logged, and the rows of
\* push_subscriptions stay as they are.
SubscriptionsAfterPush(rows, endpoint, status) == rows

\* Every row returned, whatever its user_id.
AllSubscriptions(rows, userId) == rows

\* .from('push_subscriptions').select('*').eq('user_id', payload.userId)
UserSubscriptions(rows, userId) == {row \in rows : row.user_id = userId}

\* .from('push_subscriptions').select('*').in('user_id', adminIds)
AdminSubscriptions(rows, adminIds) == {row \in rows : row.user_id \in adminIds}

\* The POSTs of every row started before any is awaited.
StartedAtOnce(rows) == rows

\* for (const sub of rows) { const sent = await sendSimplePush(sub, ...) }:
\* the rows whose POST is started before the loop awaits: the next one.
LoopStarts(rows) == <<Head(rows)>>

\* The callbacks of map run one after the other's answer.
MapAwaitsEach(rows) == <<Head(rows)>>

\* Promise.all(tokens.map(async ({ fcm_token }) => { await fetch(...) })): the
\* rows whose POST is started before anything is awaited: all of them.
MapStarts(rows) == rows

\* if (payload.userId && payload.userNotification): the lookup of the user's
\* subscriptions; a lookup error or no row skips the loop.
LookupUserSubscriptions ==
    /\ Step = "userSubs"
    /\ Enter("userSubs")
    /\ IF req.body.kind = "null"
       THEN /\ pc' = 0 /\ resp' = Caught("TypeError")
            /\ UNCHANGED <<effects, pending>>
       ELSE IF req.body.userId = "" \/ ~req.body.userNotification.present
       THEN /\ pc' = PcOf("adminRoles") /\ resp' = resp
            /\ UNCHANGED <<effects, pending>>
       ELSE /\ \E failed \in BOOLEAN :
                 \E rows \in RowOrders(IF failed THEN {}
                                       ELSE UserSubscriptions(push_subscriptions,
                                                              req.body.userId)) :
                    /\ effects' = Append(effects, [op |-> "subsRead", class |-> "user",
                                                   failed |-> failed, rows |-> rows])
                    /\ pending' = rows
                    /\ pc' = IF rows = <<>> THEN PcOf("adminRoles") ELSE pc + 1
            /\ resp' = resp
    /\ UNCHANGED <<cart_items, cartAtStart, push_subscriptions, outstanding, req,
                   principal, parsed, results, emailId, profile>>
    /\ UNCHANGED clientVars

\* The loop starts the POST to its next subscription.
Push(class) ==
    /\ pending # <<>>
    /\ outstanding = {}
    /\ LET started == LoopStarts(pending)
       IN  /\ effects' = effects \o
                         [i \in 1..Len(started) |->
                            [op |-> "push", class |-> class,
                             endpoint |-> started[i].endpoint,
                             about |-> PayloadOwner(req)]]
           /\ outstanding' = {started[i].endpoint : i \in 1..Len(started)}
           /\ pending' = SubSeq(pending, Len(started) + 1, Len(pending))
    /\ UNCHANGED <<cart_items, cartAtStart, push_subscriptions, req, pc, principal,
                   parsed, results, emailId, resp, profile>>
    /\ UNCHANGED clientVars

PushUser ==
    /\ Step = "userPush"
    /\ trace' = IF trace[Len(trace)] = "userPush" THEN trace ELSE Append(trace, "userPush")
    /\ Push("user")

PushAdmin ==
    /\ Step = "adminPush"
    /\ trace' = IF trace[Len(trace)] = "adminPush" THEN trace ELSE Append(trace, "adminPush")
    /\ Push("admin")

\* The POST to a subscription settles: sendSimplePush returns, if (sent)
\* results.<class>NotificationSent = true, and the loop goes on.
SettlePush ==
    /\ Step \in {"userPush", "adminPush"}
    /\ outstanding # {}
    /\ \E endpoint \in outstanding, status \in PushStatuses :
         /\ effects' = Append(effects, [op |-> "pushDone",
                                        class |-> IF Step = "userPush" THEN "user"
                                                  ELSE "admin",
                                        endpoint |-> endpoint, status |-> status])
         /\ push_subscriptions' = SubscriptionsAfterPush(push_subscriptions, endpoint, status)
         /\ outstanding' = outstanding \ {endpoint}
         /\ IF PushThrows(status)
            THEN /\ pc' = 0 /\ resp' = Caught("fetch failed")
                 /\ results' = results
            ELSE /\ results' = IF Step = "userPush"
                               THEN [results EXCEPT !.userNotificationSent =
                                                       @ \/ sendSimplePush(status)]
                               ELSE [results EXCEPT !.adminNotificationSent =
                                                       @ \/ sendSimplePush(status)]
                 /\ pc' = IF pending = <<>> /\ outstanding \ {endpoint} = {}
                          THEN pc + 1 ELSE pc
                 /\ resp' = resp
    /\ UNCHANGED <<cart_items, cartAtStart, req, principal, parsed, pending, emailId,
                   trace, profile>>
    /\ UNCHANGED clientVars

\* if (payload.notifyAdmin && payload.adminNotification): the lookup of the
\* admin role rows.
LookupAdminRoles ==
    /\ Step = "adminRoles"
    /\ Enter("adminRoles")
    /\ IF ~req.body.notifyAdmin \/ ~req.body.adminNotification.present
       THEN /\ pc' = PcOf("respond")
            /\ UNCHANGED effects
       ELSE \E found \in BOOLEAN :
              /\ effects' = Append(effects, [op |-> "rolesRead", found |-> found])
              /\ pc' = IF found THEN pc + 1 ELSE PcOf("respond")
    /\ UNCHANGED <<cart_items, cartAtStart, push_subscriptions, outstanding, req,
                   principal, parsed, pending, results, emailId, resp, profile>>
    /\ UNCHANGED clientVars

\* The lookup of the subscriptions of the admins.
LookupAdminSubscriptions ==
    /\ Step = "adminSubs"
    /\ Enter("adminSubs")
    /\ \E failed \in BOOLEAN :
         \E rows \in RowOrders(IF failed THEN {}
                               ELSE AdminSubscriptions(push_subscriptions, Admins)) :
            /\ effects' = Append(effects, [op |-> "subsRead", class |-> "admin",
                                           failed |-> failed, rows |-> rows])
            /\ pending' = rows
            /\ pc' = IF rows = <<>> THEN PcOf("respond") ELSE pc + 1
    /\ UNCHANGED <<cart_items, cartAtStart, push_subscriptions, outstanding, req,
                   principal, parsed, results, emailId, resp, profile>>
    /\ UNCHANGED clientVars

-----------------------------------------------------------------------------
(* Cart activity push to the admins' devices *)

\* The tokens admin_fcm_tokens may hold when the handler reads it; the table
\* is written by the admins' browsers.
FcmTokens == {"t1", "t2"}

\* Outcomes of the POST to the messaging service: response.json() gives the
\* result, or fetch or response.json() rejects.
FcmOutcomes == {"json", "threw"}

\* quantity.toString() in the body of the POST throws when the payload has no
\* quantity.
ActivityBodyThrows(body) == body.quantity.t = "undefined"

\* .from('admin_fcm_tokens').select('fcm_token'): an error is thrown, an
\* empty result is answered with a message.
LookupTokens ==
    /\ Step = "tokens"
    /\ Enter("tokens")
    /\ \E failed \in BOOLEAN, stored \in SUBSET FcmTokens :
         \E rows \in RowOrders(IF failed THEN {} ELSE stored) :
            /\ effects' = Append(effects, [op |-> "tokensRead", failed |-> failed,
                                           rows |-> rows])
            /\ IF failed
               THEN pc' = 0 /\ resp' = Caught("Unknown error") /\ pending' = pending
               ELSE IF rows = <<>>
               THEN /\ pc' = 0
                    /\ resp' = [status |-> 200,
                                body |-> [message |-> "No admin tokens registered"]]
                    /\ pending' = pending
               ELSE pc' = pc + 1 /\ resp' = resp /\ pending' = rows
    /\ UNCHANGED <<cart_items, cartAtStart, push_subscriptions, outstanding, req,
                   principal, parsed, results, emailId, profile>>
    /\ UNCHANGED clientVars

\* tokens.map(...) runs every callback up to its await fetch(...).
SendActivity ==
    /\ Step = "fcm"
    /\ pending # <<>>
    /\ Enter("fcm")
    /\ IF ActivityBodyThrows(req.body)
       THEN /\ pc' = 0 /\ resp' = Caught("TypeError")
            /\ UNCHANGED <<effects, outstanding, pending>>
       ELSE LET started == MapStarts(pending)
            IN  /\ effects' = effects \o
                              [i \in 1..Len(started) |->
                                 [op |-> "fcm", token |-> started[i],
                                  about |-> PayloadOwner(req)]]
                /\ outstanding' = {started[i] : i \in 1..Len(started)}
                /\ pending' = SubSeq(pending, Len(started) + 1, Len(pending))
                /\ pc' = pc /\ resp' = resp
    /\ UNCHANGED <<cart_items, cartAtStart, push_subscriptions, req, principal, parsed,
                   results, emailId, profile>>
    /\ UNCHANGED clientVars

\* One POST settles; Promise.all rejects with the first rejection, and
\* resolves when the last POST has given its result.
SettleActivity ==
    /\ Step = "fcm"
    /\ outstanding # {}
    /\ \E token \in outstanding, outcome \in FcmOutcomes :
         /\ effects' = Append(effects, [op |-> "fcmDone", token |-> token,
                                        outcome |-> outcome])
         /\ outstanding' = outstanding \ {token}
         /\ IF outcome = "threw"
            THEN pc' = 0 /\ resp' = Caught("fetch failed")
            ELSE /\ pc' = IF pending = <<>> /\ outstanding \ {token} = {}
                          THEN pc + 1 ELSE pc
                 /\ resp' = resp
    /\ UNCHANGED <<cart_items, cartAtStart, push_subscriptions, req, principal, parsed,
                   pending, results, emailId, trace, profile>>
    /\ UNCHANGED clientVars

-----------------------------------------------------------------------------

Next ==
    \/ Receive
    \/ Complete
    \/ CheckAuthHeader
    \/ Authenticate
    \/ CheckSecrets
    \/ ParsePayload
    \/ ValidateOwner
    \/ Authorize
    \/ Validate
    \/ Render
    \/ FetchProfile
    \/ SendEmail
    \/ ClearCart
    \/ Respond
    \/ LookupUserSubscriptions
    \/ PushUser
    \/ LookupAdminRoles
    \/ LookupAdminSubscriptions
    \/ PushAdmin
    \/ SettlePush
    \/ LookupTokens
    \/ SendActivity
    \/ SettleActivity

Spec == Init /\ [][Next]_vars

-----------------------------------------------------------------------------
(* The handlers with the preflight requests, every step of an invocation     *)
(* taken in the end.                                                          *)

PreflightResponse == [status |-> 200, body |-> [null |-> TRUE]]

\* serve(async (req) => ...): the runtime starts an invocation for a preflight.
ReceivePreflight ==
    /\ pc = 0
    /\ resp = NoResponse
    /\ \E r \in Preflights : req' = r
    /\ pc' = 1
    /\ trace' = <<"received">>
    /\ cartAtStart' = cart_items
    /\ UNCHANGED <<cart_items, push_subscriptions, outstanding, principal, parsed,
                   pending, results, emailId, effects, resp, profile>>
    /\ UNCHANGED clientVars

\* if (req.method === 'OPTIONS') return new Response(null, { headers: corsHeaders })
Preflight ==
    /\ pc = 1
    /\ req.method = "OPTIONS"
    /\ Enter("options")
    /\ resp' = PreflightResponse
    /\ pc' = 0
    /\ UNCHANGED <<cart_items, cartAtStart, push_subscriptions, outstanding, req,
                   principal, parsed, pending, results, emailId, effects, profile>>
    /\ UNCHANGED clientVars

\* The steps of an invocation: every action but the arrival of a request and
\* the end of the invocation.
HandlerSteps ==
    \/ Preflight
    \/ CheckAuthHeader \/ Authenticate \/ CheckSecrets \/ ParsePayload \/ ValidateOwner
    \/ Authorize \/ Validate \/ Render \/ FetchProfile \/ SendEmail \/ ClearCart \/ Respond
    \/ LookupUserSubscriptions \/ PushUser \/ LookupAdminRoles \/ LookupAdminSubscriptions
    \/ PushAdmin \/ SettlePush \/ LookupTokens \/ SendActivity \/ SettleActivity

NextLive ==
    \/ ReceivePreflight
    \/ Preflight
    \/ Next

SpecLive == Init /\ [][NextLive]_vars /\ WF_vars(HandlerSteps)

-----------------------------------------------------------------------------
(* sanitizeHtml on its own *)

\* The five characters sanitizeHtml replaces and the characters of the
\* entity &lt; so that an argument may hold an entity already.
Alphabet == {"&", "<", ">", "\"", "'", "l", "t", ";"}
Script == <<"<", "s", "c", "r", "i", "p", "t", ">">>
Strings == SeqsUpTo(Alphabet, MaxStr) \cup {Script}

InitSanitize ==
    /\ ServerInit
    /\ HooksIdle
    /\ ReviewsIdle
    /\ rawText \in Strings
    /\ sanitized = <<>>

\* A call sanitizeHtml(rawText) returns.
CallSanitize ==
    /\ sanitized = <<>>
    /\ sanitized' = <<sanitizeHtml(rawText)>>
    /\ UNCHANGED <<rawText, push_subscriptions, handlerVars, hookVars, reviewVars>>

NextSanitize == CallSanitize

SpecSanitize == InitSanitize /\ [][NextSanitize]_vars

-----------------------------------------------------------------------------
(* The usePushNotifications hook: subscribeToPush and unsubscribe of each     *)
(* mounted hook against the push_subscriptions table.                         *)

Endpoints == {"e1", "e2"}
Keys == {"k1", "k2"}
BrowserSubscriptions == [endpoint : Endpoints, p256dh : Keys]

\* The columns of the unique constraint of push_subscriptions.
UniqueColumns == {"user_id", "endpoint"}

\* The columns the hook names in onConflict.
OnConflictNone == {}
OnConflict == {"user_id", "endpoint"}

SameKey(row, user, sub) == row.user_id = user /\ row.endpoint = sub.endpoint
FreshId(rows) == CHOOSE id \in 1..(Cardinality(rows) + 1) : \A r \in rows : r.id # id

\* The table after the upsert of (user, sub): a row with the same values in
\* the conflict columns is updated; without conflict columns the statement is
\* an insert, which the unique constraint rejects when the row exists.
Upsert(rows, user, sub) ==
    LET hit == {r \in rows : SameKey(r, user, sub)}
    IN  IF hit = {}
        THEN rows \cup {Sub(FreshId(rows), user, sub.endpoint, sub.p256dh)}
        ELSE IF OnConflict = UniqueColumns
             THEN (rows \ hit) \cup {[r EXCEPT !.p256dh = sub.p256dh] : r \in hit}
             ELSE rows

DeleteSubscription(rows, user, sub) == {r \in rows : ~SameKey(r, user, sub)}

InitHook ==
    /\ ServerInit
    /\ SanitizerIdle
    /\ ReviewsIdle
    /\ \E other \in Users :
          hooks = [h \in HookIds |-> Mounted(IF h = "h1" THEN "u1" ELSE other)]
    /\ \E held \in {NoSubscription, [endpoint |-> "e1", p256dh |-> "k1"]} :
          pushManager = [h \in HookIds |-> IF h = "h1" THEN held ELSE NoSubscription]

\* registerServiceWorker: the hook adopts the subscription the browser holds.
RegisterServiceWorker(h) ==
    /\ hooks[h].at = "idle"
    /\ pushManager[h] # NoSubscription
    /\ hooks[h].subscription # pushManager[h]
    /\ hooks' = [hooks EXCEPT ![h].subscription = pushManager[h]]
    /\ UNCHANGED <<pushManager, push_subscriptions, handlerVars, sanitizerVars, reviewVars>>

\* subscribeToPush up to setSubscription: pushManager.subscribe returns the
\* subscription the browser holds or a new one, or throws.
SubscribeToPush(h) ==
    /\ hooks[h].at = "idle"
    /\ \E threw \in BOOLEAN, made \in BrowserSubscriptions :
          LET sub == IF pushManager[h] # NoSubscription THEN pushManager[h] ELSE made
          IN  IF threw
              THEN UNCHANGED <<hooks, pushManager>>
              ELSE /\ pushManager' = [pushManager EXCEPT ![h] = sub]
                   /\ hooks' = [hooks EXCEPT ![h].subscription = sub,
                                             ![h].at = "saving"]
    /\ UNCHANGED <<push_subscriptions, handlerVars, sanitizerVars, reviewVars>>

\* subscribeToPush from the upsert on: an error is thrown and caught, the
\* subscription of the hook stays.
SaveSubscription(h) ==
    /\ hooks[h].at = "saving"
    /\ \E failed \in BOOLEAN :
          /\ push_subscriptions' =
              IF failed
              THEN push_subscriptions
              ELSE Upsert(push_subscriptions, hooks[h].user, hooks[h].subscription)
          /\ hooks' = [hooks EXCEPT ![h].at = "idle", ![h].reached = ~failed]
    /\ UNCHANGED <<pushManager, handlerVars, sanitizerVars, reviewVars>>

\* unsubscribe up to subscription.unsubscribe(), which may throw.
Unsubscribe(h) ==
    /\ hooks[h].at = "idle"
    /\ hooks[h].subscription # NoSubscription
    /\ \E threw \in BOOLEAN :
          IF threw
          THEN UNCHANGED <<hooks, pushManager>>
          ELSE /\ pushManager' = [pushManager EXCEPT ![h] = NoSubscription]
               /\ hooks' = [hooks EXCEPT ![h].at = "deleting"]
    /\ UNCHANGED <<push_subscriptions, handlerVars, sanitizerVars, reviewVars>>

\* unsubscribe from the delete on: the result of the delete is not looked at.
DeleteRow(h) ==
    /\ hooks[h].at = "deleting"
    /\ \E failed \in BOOLEAN :
          /\ push_subscriptions' =
              IF failed
              THEN push_subscriptions
              ELSE DeleteSubscription(push_subscriptions, hooks[h].user,
                                      hooks[h].subscription)
          /\ hooks' = [hooks EXCEPT ![h].subscription = NoSubscription,
                                    ![h].at = "idle", ![h].reached = ~failed]
    /\ UNCHANGED <<pushManager, handlerVars, sanitizerVars, reviewVars>>

NextHook ==
    \/ \E h \in HookIds : RegisterServiceWorker(h)
    \/ \E h \in HookIds : SubscribeToPush(h)
    \/ \E h \in HookIds : SaveSubscription(h)
    \/ \E h \in HookIds : Unsubscribe(h)
    \/ \E h \in HookIds : DeleteRow(h)

SpecHook == InitHook /\ [][NextHook]_vars

-----------------------------------------------------------------------------
(* The ProductReviews component against the reviews table of one product.    *)

MaxReviews == 3

Stars == 1..5
\* The stars the users click: the first and the last of the five.
StarsClicked == {1, 5}
Review(id, user, rating) == [id |-> id, user_id |-> user, rating |-> rating]
Statement(op, by, id, rating, answer) ==
    [op |-> op, by |-> by, id |-> id, rating |-> rating, answer |-> answer]

\* The CHECK of the rating column and the row-level-security policies.
RatingCheck(rating) == rating >= 1 /\ rating <= 5
InsertPolicy(uid, row) == uid = row.user_id
UpdatePolicy(uid, row) == uid = row.user_id
DeletePolicy(uid, row) == uid = row.user_id

\* The guard of handleSubmit on the rating.
RatingAny(rating) == TRUE
RatingChosen(rating) == rating # 0

\* The delete button of a listed review is rendered.
DeleteShown(user, review) == user = review.user_id \/ user \in Admins

\* find: the first of the rows of the user, newest first.
Existing(rows, user) ==
    LET own == {r \in rows : r.user_id = user}
    IN  IF own = {} THEN 0
        ELSE (CHOOSE r \in own : \A o \in own : o.id <= r.id).id

InitReviews ==
    /\ ServerInit
    /\ SanitizerIdle
    /\ HooksIdle
    /\ reviews = {}
    /\ reviewIds = 0
    /\ \E other \in Users : views = [v \in ViewIds |-> View(IF v = "v1" THEN "u1" ELSE other)]
    /\ statement = <<>>

\* fetchReviews from the answer of the select on.
FetchReviews(v) ==
    /\ views[v].fetch = "sent"
    /\ \E failed \in BOOLEAN :
          LET existing == Existing(reviews, views[v].user)
              row == CHOOSE r \in reviews : r.id = existing
          IN  views' =
                 IF failed
                 THEN [views EXCEPT ![v].fetch = "idle"]
                 ELSE [views EXCEPT
                         ![v].fetch = "idle",
                         ![v].listed = {[id |-> r.id, user_id |-> r.user_id] : r \in reviews},
                         ![v].userReview = existing,
                         ![v].rating = IF existing # 0 THEN row.rating ELSE @]
    /\ UNCHANGED <<reviews, reviewIds, statement>>
    /\ UNCHANGED <<push_subscriptions, handlerVars, sanitizerVars, hookVars>>

\* A click on a star.
SetRating(v) ==
    /\ \E star \in StarsClicked :
          /\ views[v].rating # star
          /\ views' = [views EXCEPT ![v].rating = star]
    /\ UNCHANGED <<reviews, reviewIds, statement>>
    /\ UNCHANGED <<push_subscriptions, handlerVars, sanitizerVars, hookVars>>

\* handleSubmit: an update of the review the component holds, an insert when
\* it holds none; fetchReviews is called when the statement gave no error.
HandleSubmit(v) ==
    LET view == views[v]
        new == Review(reviewIds + 1, view.user, view.rating)
    IN  /\ RatingChosen(view.rating)
        /\ view.userReview = 0 => reviewIds < MaxReviews
        /\ \E failed \in BOOLEAN :
              LET rejected == failed \/ ~RatingCheck(view.rating)
                                     \/ (view.userReview = 0 /\ ~InsertPolicy(view.user, new))
                  answer == IF rejected THEN "error" ELSE "ok"
              IN  /\ statement' =
                         <<Statement(IF view.userReview # 0 THEN "update" ELSE "insert",
                                     view.user, view.userReview, view.rating, answer)>>
                  /\ reviews' =
                         IF rejected THEN reviews
                         ELSE IF view.userReview # 0
                         THEN {IF r.id = view.userReview /\ UpdatePolicy(view.user, r)
                               THEN [r EXCEPT !.rating = view.rating] ELSE r : r \in reviews}
                         ELSE reviews \cup {new}
                  /\ reviewIds' =
                         IF rejected \/ view.userReview # 0 THEN reviewIds ELSE reviewIds + 1
                  /\ views' = IF rejected THEN views ELSE [views EXCEPT ![v].fetch = "sent"]
        /\ UNCHANGED <<push_subscriptions, handlerVars, sanitizerVars, hookVars>>

\* handleDelete of a listed review whose delete button is rendered, the
\* confirm accepted.
HandleDelete(v) ==
    LET view == views[v]
    IN  /\ \E review \in view.listed, failed \in BOOLEAN :
              /\ DeleteShown(view.user, review)
              /\ statement' =
                     <<Statement("delete", view.user, review.id, 0,
                                 IF failed THEN "error" ELSE "ok")>>
              /\ reviews' =
                     IF failed THEN reviews
                     ELSE {r \in reviews : ~(r.id = review.id /\ DeletePolicy(view.user, r))}
              /\ views' =
                     IF failed THEN views
                     ELSE IF view.userReview = review.id
                     THEN [views EXCEPT ![v].userReview = 0, ![v].rating = 0,
                                        ![v].fetch = "sent"]
                     ELSE [views EXCEPT ![v].fetch = "sent"]
        /\ UNCHANGED reviewIds
        /\ UNCHANGED <<push_subscriptions, handlerVars, sanitizerVars, hookVars>>

NextReviews ==
    \/ \E v \in ViewIds : FetchReviews(v)
    \/ \E v \in ViewIds : SetRating(v)
    \/ \E v \in ViewIds : HandleSubmit(v)
    \/ \E v \in ViewIds : HandleDelete(v)

SpecReviews == InitReviews /\ [][NextReviews]_vars

-----------------------------------------------------------------------------
(* Properties *)

Responded == pc = 0 /\ resp.status # 0

Ops(kinds) == {i \in DOMAIN effects : effects[i].op \in kinds}

\* No email was handed to the provider, no push POST was issued and no delete
\* of cart rows was issued by the request.
NoSideEffect == Ops({"email", "push", "cartDelete"}) = {}

\* The token of the request resolves to a principal and the payload is an
\* object naming another identity.
OtherIdentity ==
    /\ req.handler \in AuthenticatedHandlers
    /\ startsWithBearer(req.authHeader)
    /\ getUser(req.authHeader) # ""
    /\ req.body.kind = "object"
    /\ PrincipalIdentity(req.handler, getUser(req.authHeader)) # PayloadOwner(req)

\* C1 as stated: every request whose token resolves to a principal different
\* from the payload's userId (or userEmail) is answered 403, and sends no
\* email, issues no push POST and deletes no cart row.
C1_Original ==
    OtherIdentity => /\ NoSideEffect
                     /\ Responded => resp.status = 403

\* C1 amended: such a request has no side effect, and is answered 403 when the
\* handler's secrets are set and the userId (or userEmail) is well formed;
\* with a secret unset it is answered 500, and with the secrets set and a
\* missing or malformed userId (or userEmail) it is answered 400.
C1_ForbiddenWithoutSideEffect ==
    OtherIdentity =>
        /\ NoSideEffect
        /\ Responded =>
             resp.status = IF SecretsCheck(req.handler, req.env) # Pass THEN 500
                           ELSE IF OwnerCheck(req.handler, req.body) # Pass THEN 400
                           ELSE 403

C1_Witness ==
    /\ OtherIdentity
    /\ Responded
    /\ resp.status = 403
    /\ req.handler = CN
    /\ req.body.cartItems.isArray /\ ValidateCart(req.body) = Pass

\* C2: an email or push about the payload's userId / userEmail is emitted
\* only in a request whose authenticated principal is that identity.
C2_NoActingForOthers ==
    \A i \in Ops({"email", "push"}) :
        /\ principal # ""
        /\ PrincipalIdentity(req.handler, principal) = effects[i].about

\* The token is missing or the auth service resolves it to no user.
NotAuthenticated ==
    /\ req.handler \in AuthenticatedHandlers
    /\ pc # 0 \/ resp.status # 0
    /\ ~startsWithBearer(req.authHeader) \/ getUser(req.authHeader) = ""

\* C3: in the authenticated handlers a request without a 'Bearer ' header or
\* with a token that resolves to no user is answered 401; its payload is not
\* parsed, and it sends no email, issues no push POST and reads or deletes no
\* row.
C3_UnauthorizedBeforeAnything ==
    NotAuthenticated =>
        /\ ~parsed
        /\ Ops({"email", "push", "cartDelete", "profileRead", "subsRead", "rolesRead"}) = {}
        /\ Responded => resp = Unauthorized

C3_Witness ==
    /\ NotAuthenticated
    /\ Responded
    /\ startsWithBearer(req.authHeader)
    /\ Ops({"getUser"}) # {}
    /\ resp.status = 401

\* A well-formed checkout payload sent by the user it names.
ValidCheckout ==
    /\ req.handler = CN
    /\ startsWithBearer(req.authHeader)
    /\ getUser(req.authHeader) # ""
    /\ req.body.kind = "object"
    /\ OwnerCheck(CN, req.body) = Pass
    /\ req.body.userId = getUser(req.authHeader)
    /\ ValidateCart(req.body) = Pass

Sends == Ops({"email"})
Deletes == Ops({"cartDelete"})
Delivered == {i \in Sends : effects[i].outcome = "sent"}
FailedSends == {i \in Sends : effects[i].outcome # "sent"}
CartOf(rows, u) == {row \in rows : row[1] = u}
SuccessWithId == [status |-> 200, body |-> [success |-> TRUE, emailId |-> "email-id"]]

\* C4 as stated: a valid checkout payload from the user it names sends exactly
\* one confirmation email, after which every cart row of the user is deleted
\* and the response is {success: true, emailId}.
C4_Original ==
    (ValidCheckout /\ Responded) =>
        /\ Cardinality(Delivered) = 1
        /\ CartOf(cart_items, req.body.userId) = {}
        /\ resp = SuccessWithId

\* C4 amended: with the secrets set, such a request hands exactly one email
\* to the provider; when the provider accepts it, one delete of the user's cart
\* rows follows and the response is {success: true, emailId}, and when that
\* delete succeeds no cart row of the user is left.
C4_OneEmailThenCartCleared ==
    (ValidCheckout /\ SecretsCheck(CN, req.env) = Pass /\ Responded) =>
        /\ Cardinality(Sends) = 1
        /\ \A i \in Delivered :
             /\ resp = SuccessWithId
             /\ Cardinality(Deletes) = 1
             /\ \A j \in Deletes :
                  /\ j > i
                  /\ effects[j].user_id = req.body.userId
                  /\ effects[j].outcome = "ok" =>
                       CartOf(cart_items, req.body.userId) = {}

C4_Witness ==
    /\ ValidCheckout
    /\ Responded
    /\ Delivered # {}
    /\ \E j \in Deletes : effects[j].outcome = "ok"
    /\ CartOf(cartAtStart, req.body.userId) # {}
    /\ CartOf(cart_items, req.body.userId) = {}
    /\ resp = SuccessWithId

\* C5: in checkout-notification, when the email send fails no delete of
\* cart_items is attempted and every cart row of the user is still there when
\* the handler responds.
C5_NoClearAfterFailedEmail ==
    (req.handler = CN /\ FailedSends # {}) =>
        /\ Deletes = {}
        /\ cart_items = cartAtStart

Range(seq) == {seq[i] : i \in DOMAIN seq}
Rank(order, stage) == CHOOSE i \in DOMAIN order : order[i] = stage

\* The stages of the trace that belong to the order are entered in that order.
InOrder(order) ==
    \A i, j \in DOMAIN trace :
        (i < j /\ trace[i] \in Range(order) /\ trace[j] \in Range(order))
            => Rank(order, trace[i]) < Rank(order, trace[j])

\* The order C6 states: validation (of userId, then of the cart and the total)
\* is complete before the principal is compared with userId.
ClaimedStages ==
    <<"received", "validateOwner", "validate", "authorize", "profile", "email",
      "clearCart", "respond">>

\* The order of the code: the principal is compared with userId between the
\* format check of userId and the checks of the cart and the total.
CheckoutStages ==
    <<"received", "authHeader", "getUser", "secrets", "parse", "validateOwner",
      "authorize", "validate", "profile", "email", "clearCart", "respond">>

\* C6 as stated: the stages of a checkout request are entered in the order
\* received, validated, authorized, profile-fetched, email-sent, cart-cleared,
\* responded.
C6_Original == req.handler = CN => InOrder(ClaimedStages)

\* C6 amended: the stages are entered in the order received, authenticated,
\* secrets checked, parsed, userId format checked, authorized, cart and total
\* validated, profile-fetched, email-sent, cart-cleared, responded, none
\* skipped; the profile read precedes the email send, which precedes the
\* cart delete.
C6_StagesInOrder ==
    req.handler = CN =>
        /\ \A i \in DOMAIN trace : trace[i] = CheckoutStages[i]
        /\ \A i \in Sends : \E j \in Ops({"profileRead"}) : j < i
        /\ \A i \in Deletes : \E j \in Sends : j < i

C6_Witness ==
    /\ req.handler = CN
    /\ Responded
    /\ trace = CheckoutStages
    /\ Deletes # {}

\* C7: in checkout-notification and send-checkout-confirmation a request
\* answered 400 or 403 has read no profile, called the email provider for
\* nothing and deleted no cart row.
C7_RejectedBeforeSideEffects ==
    (req.handler \in {CN, SCC} /\ resp.status \in {400, 403}) =>
        /\ Ops({"profileRead", "email", "cartDelete"}) = {}
        /\ cart_items = cartAtStart

C7_Witness ==
    /\ req.handler = CN
    /\ resp.status = 400
    /\ resp.body.error = "Invalid totalPrice"
    /\ Ops({"getUser"}) # {}

\* The payload of an authenticated request is malformed: not a JSON object,
\* or a field missing or of the wrong type or out of its range.
Malformed ==
    \/ req.body.kind # "object"
    \/ OwnerCheck(req.handler, req.body) # Pass
    \/ Validation(req.handler, req.body) # Pass

\* C8: an authenticated request to checkout-notification or
\* send-checkout-confirmation with a malformed payload is answered 400 with an
\* error reason (403 when it names another identity), never 500 and never
\* success.
C8_MalformedIs400 ==
    ( /\ req.handler \in {CN, SCC}
      /\ Responded
      /\ principal # ""
      /\ SecretsCheck(req.handler, req.env) = Pass
      /\ Malformed
      /\ resp.status # 403 )
    => (resp.status = 400 /\ "error" \in DOMAIN resp.body)

\* C9: a failed delete of the cart rows after a delivered email is not
\* repeated and does not fail the request, which is answered 200 with
\* {success: true, emailId}.
C9_DeleteFailureSwallowed ==
    ( /\ req.handler = CN
      /\ Delivered # {}
      /\ \E j \in Deletes : effects[j].outcome = "error" )
    => /\ Cardinality(Deletes) = 1
       /\ cart_items = cartAtStart
       /\ IF pc = 0 THEN resp = SuccessWithId ELSE Step = "respond"

C9_Witness ==
    /\ req.handler = CN
    /\ Delivered # {}
    /\ \E j \in Deletes : effects[j].outcome = "error"
    /\ Responded
    /\ resp.status = 200

\* C10: in the email handlers a failed provider call is not repeated and is
\* answered 500 with {error}, never {success: true}.
C10_FailedSendIs500 ==
    (req.handler \in EmailHandlers /\ FailedSends # {}) =>
        /\ Cardinality(Sends) = 1
        /\ Responded => (resp.status = 500 /\ "error" \in DOMAIN resp.body)

-----------------------------------------------------------------------------
(* Secrets *)

\* A request is being served or was answered, and a secret its handler tests
\* is not set.
SecretMissing ==
    /\ pc # 0 \/ resp.status # 0
    /\ ~(SecretsRead(req.handler) \subseteq req.env)

\* The calls of the request other than the lookup of the user of the token.
CallsAfterAuth == {i \in DOMAIN effects : effects[i].op # "getUser"}

-----------------------------------------------------------------------------
(* The limits of the cart payload *)

\* checkout-notification or the authenticated confirmation handler has
\* answered a request that passed authentication, the secret tests and the
\* ownership check, so that the checks of the cart were run on its payload.
CartChecked ==
    /\ req.handler \in {CN, SCC}
    /\ Responded
    /\ "validate" \in Range(trace)

CartItemsError == ErrorResponse(400, "Invalid cartItems: must be array with 1-50 items")

\* C12: a payload whose cartItems is not an array, is empty or has more than
\* 50 entries is rejected with 400 and never answered with success; an array
\* of 1 to 50 entries is not rejected by this check.
C12_CartItemsLength ==
    /\ CartChecked =>
          LET c == req.body.cartItems
              outside == ~c.isArray \/ Len(c.items) \notin 1..50
          IN  /\ outside => resp.status = 400
              /\ outside /\ (req.handler = CN \/ ~InvalidUserName(req.body.userName))
                    => resp = CartItemsError
              /\ ~outside => resp # CartItemsError
    /\ ( /\ req.handler \in {CN, SCC}
         /\ Responded
         /\ req.body.kind = "object"
         /\ ~req.body.cartItems.isArray \/ Len(req.body.cartItems.items) \notin 1..50 )
       => resp.status \in {400, 401, 403, 500}

C12_Witness ==
    /\ CartChecked
    /\ req.handler = SCC
    /\ req.body.cartItems = LongArray
    /\ resp = CartItemsError

\* The cart checks were run on a payload whose cartItems is an array of 1 to
\* 50 entries (and whose userName is acceptable, where it is checked).
ItemsChecked ==
    /\ CartChecked
    /\ ~InvalidCartItems(req.body.cartItems)
    /\ req.handler = SCC => ~InvalidUserName(req.body.userName)

\* The entries of cartItems that are objects.
ItemsOf(body) == {i \in DOMAIN body.cartItems.items : ~body.cartItems.items[i].isNull}

QuantityInRange(v) == v.t = "number" /\ "frac" \notin DOMAIN v /\ v.n \in 1..100

\* C13: a payload is rejected with 400 whenever an item at any position has a
\* quantity that is not an integer or lies outside 1..100; integer
\* quantities in 1..100 are not rejected by this check.
C13_QuantityRange ==
    ItemsChecked =>
        LET items == req.body.cartItems.items
        IN  /\ (\E i \in ItemsOf(req.body) : ~QuantityInRange(items[i].quantity))
                  => resp.status = 400
            /\ (\A i \in ItemsOf(req.body) : QuantityInRange(items[i].quantity))
                  => resp # ErrorResponse(400, "Invalid quantity")

PriceInRange(v, limit) ==
    /\ v.t = "number"
    /\ v.n > 0 \/ (v.n = 0 /\ "frac" \in DOMAIN v)
    /\ v.n < limit \/ (v.n = limit /\ "frac" \notin DOMAIN v)

\* C14: a payload is rejected with 400 whenever an item price is not a
\* number, is <= 0 or exceeds 1,000,000, or totalPrice is not a number, is
\* <= 0 or exceeds 10,000,000; values inside the ranges are not rejected by
\* these checks.
C14_PriceRange ==
    ItemsChecked =>
        LET items == req.body.cartItems.items
        IN  /\ ( \/ \E i \in ItemsOf(req.body) : ~PriceInRange(items[i].price, 1000000)
                 \/ ~PriceInRange(req.body.totalPrice, 10000000) )
                  => resp.status = 400
            /\ (\A i \in ItemsOf(req.body) : PriceInRange(items[i].price, 1000000))
                  => resp # ErrorResponse(400, "Invalid price")
            /\ PriceInRange(req.body.totalPrice, 10000000)
                  => resp # ErrorResponse(400, "Invalid totalPrice")

-----------------------------------------------------------------------------
(* Web push fan-out *)

Issued(class) == {i \in Ops({"push"}) : effects[i].class = class}
Settled(class) == {i \in Ops({"pushDone"}) : effects[i].class = class}

\* A push POST of the class was answered with a 2xx status.
Accepted(class) == \E i \in Settled(class) : effects[i].status \in 200..299

\* C15: in send-push-notification the flag of a class is true exactly when a
\* push POST of that class was answered 2xx; a POST answered 404, 410 or any
\* other status, or a fetch that throws, does not fail the dispatch, which is
\* answered 200 with success: true and the two flags.
C15_FlagsTellAcceptedPush ==
    req.handler \in PushHandlers =>
        /\ results.userNotificationSent <=> Accepted("user")
        /\ results.adminNotificationSent <=> Accepted("admin")
        /\ (Responded /\ Ops({"push"}) # {}) =>
              resp = [status |-> 200,
                      body |-> [success |-> TRUE,
                                userNotificationSent |-> Accepted("user"),
                                adminNotificationSent |-> Accepted("admin")]]

C15_Witness ==
    /\ req.handler = SPN
    /\ Responded
    /\ \E i, j \in Settled("user") : effects[i].status = 410 /\ effects[j].status = 299
    /\ \E i \in Settled("admin") : effects[i].status = 0
    /\ resp.body = [success |-> TRUE, userNotificationSent |-> TRUE,
                    adminNotificationSent |-> FALSE]

\* The rows the lookup of the class returned, in the order returned; <<>>
\* while the lookup has not run.
Returned(class) ==
    LET reads == {i \in Ops({"subsRead"}) : effects[i].class = class}
    IN  IF reads = {} THEN <<>> ELSE effects[CHOOSE i \in reads : TRUE].rows

PostsTo(class, endpoint) == {i \in Issued(class) : effects[i].endpoint = endpoint}
AnswersFrom(class, endpoint) == {i \in Settled(class) : effects[i].endpoint = endpoint}

\* C16: every subscription row the lookup of a class returned receives
\* exactly one push POST, whatever the outcomes of the other deliveries: no
\* row gets a second POST, and when the request is answered each row has got
\* its POST and the POST has settled.
C16_OnePostPerRow ==
    req.handler \in PushHandlers =>
        \A class \in {"user", "admin"} :
            /\ Cardinality({i \in Ops({"subsRead"}) : effects[i].class = class}) <= 1
            /\ \A i \in DOMAIN Returned(class) :
                  LET endpoint == Returned(class)[i].endpoint
                  IN  /\ Cardinality(PostsTo(class, endpoint)) <= 1
                      /\ Cardinality(AnswersFrom(class, endpoint)) <= 1
                      /\ Responded =>
                            /\ Cardinality(PostsTo(class, endpoint)) = 1
                            /\ Cardinality(AnswersFrom(class, endpoint)) = 1

C16_Witness ==
    /\ req.handler = SPN
    /\ Responded
    /\ Len(Returned("user")) = 2
    /\ \E i, j \in Settled("user") :
          /\ i < j
          /\ effects[i].status = 0
          /\ effects[j].status = 200
    /\ \A row \in Range(Returned("user")) : Cardinality(PostsTo("user", row.endpoint)) = 1

\* C17 as stated: the deliveries of a class are issued concurrently and
\* awaited jointly, no delivery waiting for the completion of another: when
\* a POST of the class has settled, the POST to every row the lookup returned
\* has been issued.
C17_Original ==
    req.handler \in PushHandlers =>
        \A class \in {"user", "admin"} :
            Settled(class) # {} => Cardinality(Issued(class)) = Len(Returned(class))

\* The endpoints of the POSTs of a class, in the order issued.
RECURSIVE EndpointsIssued(_, _)
EndpointsIssued(class, n) ==
    IF n = 0 THEN <<>>
    ELSE IF effects[n].op = "push" /\ effects[n].class = class
    THEN Append(EndpointsIssued(class, n - 1), effects[n].endpoint)
    ELSE EndpointsIssued(class, n - 1)

\* C17: the deliveries are issued one at a time, in the order in which the
\* lookup returned the rows: a POST is issued only after every POST issued
\* before it has settled, so that at most one POST is outstanding.
C17_OneAtATime ==
    req.handler \in PushHandlers =>
        /\ Cardinality(outstanding) <= 1
        /\ \A i \in Ops({"push"}) :
              \A j \in Ops({"push"}) :
                 j < i => \E k \in Ops({"pushDone"}) :
                             /\ j < k /\ k < i
                             /\ effects[k].endpoint = effects[j].endpoint
                             /\ effects[k].class = effects[j].class
        /\ \A class \in {"user", "admin"} :
              LET sent == EndpointsIssued(class, Len(effects))
              IN  /\ Len(sent) <= Len(Returned(class))
                  /\ \A i \in DOMAIN sent : sent[i] = Returned(class)[i].endpoint

C17_Witness ==
    /\ req.handler = SPN
    /\ Len(Returned("user")) = 2
    /\ Cardinality(Settled("user")) = 1
    /\ Cardinality(Issued("user")) = 2
    /\ Cardinality(outstanding) = 1

\* C18: no step of send-push-notification inserts, updates or deletes a row
\* of push_subscriptions, also after a POST was answered 404 or 410.
C18_SubscriptionsUntouched ==
    [][(pc # 0 /\ req.handler \in PushHandlers) => push_subscriptions' = push_subscriptions]_vars

C18_Witness ==
    /\ req.handler = SPN
    /\ Responded
    /\ \E i, j \in Settled("user") :
          /\ effects[i].status = 404
          /\ effects[j].status = 410
          /\ \E row, other \in push_subscriptions :
                row.endpoint = effects[i].endpoint /\ other.endpoint = effects[j].endpoint

\* The endpoints that were sent a POST of the class.
Targets(class) == {effects[i].endpoint : i \in Issued(class)}

\* The endpoints of the rows of the user the payload names, and of the rows
\* of the users with the admin role.
EndpointsOfUser == {row.endpoint : row \in {s \in push_subscriptions : s.user_id = req.body.userId}}
EndpointsOfAdmins == {row.endpoint : row \in {s \in push_subscriptions : s.user_id \in Admins}}

UserPushWanted == req.body.userNotification.present
AdminPushWanted == req.body.notifyAdmin /\ req.body.adminNotification.present

\* The lookups of the class ran and returned their rows.
LookedUp(class) ==
    /\ \E i \in Ops({"subsRead"}) : effects[i].class = class /\ ~effects[i].failed
    /\ class = "admin" => \E i \in Ops({"rolesRead"}) : effects[i].found

\* C19 as stated: the user-class pushes of a dispatch go exactly to the rows
\* of payload.userId when userNotification is present and to none otherwise,
\* the admin-class pushes exactly to the rows of the admins when notifyAdmin
\* is true and adminNotification is present and to none otherwise.
C19_Original ==
    (req.handler \in PushHandlers /\ Responded /\ resp.status = 200) =>
        /\ Targets("user") = IF UserPushWanted THEN EndpointsOfUser ELSE {}
        /\ Targets("admin") = IF AdminPushWanted THEN EndpointsOfAdmins ELSE {}

\* C19: a user-class POST goes only to a row of payload.userId and only when
\* userNotification is present, an admin-class POST only to a row of an admin
\* and only when notifyAdmin is true and adminNotification is present; when
\* the lookups of a class return their rows, a dispatch answered 200 has sent
\* a POST to every such row; when a lookup fails the class gets no POST.
C19_PushTargets ==
    (req.handler \in PushHandlers /\ req.body.kind = "object") =>
        /\ Targets("user") \subseteq (IF UserPushWanted THEN EndpointsOfUser ELSE {})
        /\ Targets("admin") \subseteq (IF AdminPushWanted THEN EndpointsOfAdmins ELSE {})
        /\ (Responded /\ resp.status = 200) =>
              /\ UserPushWanted =>
                    Targets("user") = IF LookedUp("user") THEN EndpointsOfUser ELSE {}
              /\ AdminPushWanted =>
                    Targets("admin") = IF LookedUp("admin") THEN EndpointsOfAdmins ELSE {}

C19_Witness ==
    /\ req.handler = SPN
    /\ Responded
    /\ req.body.kind = "object"
    /\ req.body.userId = "u1"
    /\ UserPushWanted
    /\ AdminPushWanted
    /\ Targets("user") = {"e1", "e2"}
    /\ Targets("admin") = {"e3"}

-----------------------------------------------------------------------------
(* The limits of a notification *)

\* A string is missing (or not a string) or empty.
Blank(v) == v.t # "string" \/ v.n = 0

\* The notification is present with a body of more than 500 characters, a
\* title or body that is missing or empty, a title of more than 100
\* characters or a url of more than 500.
OverLimits(notification) ==
    /\ notification.present
    /\ \/ notification.body.t = "string" /\ notification.body.n > 500
       \/ Blank(notification.title)
       \/ Blank(notification.body)
       \/ notification.title.t = "string" /\ notification.title.n > 100
       \/ notification.url.t = "string" /\ notification.url.n > 500

\* Title and body are strings of 1..100 and 1..500 characters, the url is
\* missing, empty or a string of at most 500 characters.
WithinLimits(notification) ==
    /\ notification.present
    /\ notification.title.t = "string" /\ notification.title.n \in 1..100
    /\ notification.body.t = "string" /\ notification.body.n \in 1..500
    /\ \/ notification.url.t = "undefined"
       \/ notification.url.t = "string" /\ notification.url.n \in 0..500

NotificationErrors ==
    { ErrorResponse(400, "Invalid userNotification content"),
      ErrorResponse(400, "Invalid adminNotification content") }

-----------------------------------------------------------------------------
(* Escaping *)

Entities == {Amp, Lt, Gt, Quot, Apos}

BeginsEntity(str, i) ==
    \E e \in Entities : i + Len(e) - 1 <= Len(str) /\ SubSeq(str, i, i + Len(e) - 1) = e

\* The text holds none of < > " ' and every & of it begins an entity.
Escaped(str) ==
    \A i \in DOMAIN str :
        /\ str[i] \notin {"<", ">", "\"", "'"}
        /\ str[i] = "&" => BeginsEntity(str, i)

\* C21: in every email handler, every user-controlled string of the payload
\* and of the profile is embedded in the email in its escaped form.
C21_EmailsEscaped ==
    req.handler \in EmailHandlers =>
        \A i \in Sends : \A k \in DOMAIN effects[i].html : Escaped(effects[i].html[k])

\* The character an entity stands for.
CharOf(e) ==
    CASE e = Amp -> "&" [] e = Lt -> "<" [] e = Gt -> ">" [] e = Quot -> "\"" [] e = Apos -> "'"

\* The text with every entity replaced by its character, from left to right.
RECURSIVE Decode(_)
Decode(s) ==
    IF s = <<>> THEN <<>>
    ELSE IF BeginsEntity(s, 1)
    THEN LET e == CHOOSE x \in Entities : Len(x) <= Len(s) /\ SubSeq(s, 1, Len(x)) = x
         IN  <<CharOf(e)>> \o Decode(SubSeq(s, Len(e) + 1, Len(s)))
    ELSE <<Head(s)>> \o Decode(Tail(s))

\* C22: the result of sanitizeHtml holds none of < > " ', each & of it begins
\* one of the five entities, and it is the argument with each of the five
\* characters replaced by its entity and every other character unchanged and
\* in order; <script> becomes &lt;script&gt;.
C22_SanitizeEscapes ==
    \A k \in DOMAIN sanitized :
        /\ Escaped(sanitized[k])
        /\ Decode(sanitized[k]) = rawText
        /\ Len(sanitized[k]) >= Len(rawText)
        /\ rawText = Script => sanitized[k] = Lt \o <<"s", "c", "r", "i", "p", "t">> \o Gt

C22_Witness ==
    /\ rawText = Script
    /\ sanitized = <<Lt \o <<"s", "c", "r", "i", "p", "t">> \o Gt>>

-----------------------------------------------------------------------------
(* The rows of the usePushNotifications hook.                                 *)

StoredFor(rows, user, endpoint) ==
    {r \in rows : r.user_id = user /\ r.endpoint = endpoint}
OneRowPerKey ==
    \A r1, r2 \in push_subscriptions :
        (r1.user_id = r2.user_id /\ r1.endpoint = r2.endpoint) => r1 = r2
Finishes(h, from) == hooks[h].at = from /\ hooks'[h].at = "idle"

\* C23: whatever the hooks of the users have done, push_subscriptions holds
\* at most one row for a (user_id, endpoint), and a subscribeToPush whose
\* upsert gets to the table leaves exactly one row for its user and endpoint,
\* holding the keys of the subscription it saved.
C23_OneRowPerEndpoint ==
    /\ []OneRowPerKey
    /\ [][\A h \in HookIds :
            (Finishes(h, "saving") /\ hooks'[h].reached) =>
                \E r \in push_subscriptions' :
                    /\ StoredFor(push_subscriptions', hooks[h].user,
                              hooks[h].subscription.endpoint) = {r}
                    /\ r.p256dh = hooks[h].subscription.p256dh]_vars
C23_Witness ==
    /\ \A h \in HookIds : hooks[h].user = "u1" /\ hooks[h].at = "idle" /\ hooks[h].reached
    /\ hooks["h1"].subscription = [endpoint |-> "e1", p256dh |-> "k1"]
    /\ hooks["h2"].subscription = [endpoint |-> "e1", p256dh |-> "k2"]
    /\ Cardinality(StoredFor(push_subscriptions, "u1", "e1")) = 1

\* C24: when unsubscribe finishes, the row of the user and the endpoint of
\* the subscription it cleared is no longer in push_subscriptions.
C24_UnsubscribeDeletesRow ==
    [][\A h \in HookIds :
          Finishes(h, "deleting") =>
              StoredFor(push_subscriptions', hooks[h].user,
                     hooks[h].subscription.endpoint) = {}]_vars

-----------------------------------------------------------------------------
(* The rows of the ProductReviews component.                                  *)

Said(op, answer) ==
    statement # <<>> /\ statement[1].op = op /\ statement[1].answer = answer

\* C25: whatever the components of a user have submitted, the reviews table
\* holds at most one row of that user for the product.
C25_OneReviewPerUser ==
    \A r1, r2 \in reviews : r1.user_id = r2.user_id => r1 = r2

\* C26: a delete that the component of the owner or of an admin sent and that
\* was answered without error has removed the row, and a row leaves the table
\* only by a delete of its owner or of an admin.
C26_OwnerOrAdminDeletes ==
    /\ [](Said("delete", "ok") => \A r \in reviews : r.id # statement[1].id)
    /\ [][\A r \in reviews \ reviews' :
            /\ statement' # <<>>
            /\ statement'[1].op = "delete"
            /\ statement'[1].by = r.user_id \/ statement'[1].by \in Admins]_vars

\* C27: every insert and update the component sends carries a rating of 1 to
\* 5, and so does every stored row.
C27_RatingInRange ==
    /\ \A r \in reviews : r.rating \in Stars
    /\ (statement # <<>> /\ statement[1].op \in {"insert", "update"})
           => statement[1].rating \in Stars
C27_Witness ==
    /\ Said("insert", "ok")
    /\ \E v \in ViewIds : views[v].rating = 0 /\ views[v].fetch = "idle"
    /\ \E r \in reviews : r.rating = 5

-----------------------------------------------------------------------------
(* The carts of the other users.                                              *)

\* C28: from the arrival of a request to its response, whatever the outcome,
\* the cart rows of every user other than the authenticated one are the rows
\* that were stored when the request arrived.
C28_OtherCartsUntouched ==
    \A u \in Users :
        u # principal => CartOf(cart_items, u) = CartOf(cartAtStart, u)
C28_Witness ==
    /\ req.handler = CN
    /\ Responded
    /\ resp.status = 200
    /\ principal = "u1"
    /\ CartOf(cartAtStart, "u1") # {}
    /\ CartOf(cart_items, "u1") = {}
    /\ CartOf(cart_items, "u2") # {}

-----------------------------------------------------------------------------
(* One response for an invocation.                                            *)

\* C29: an invocation whose steps are all taken in the end is answered: a
\* request in flight leads to a response, the response once returned is not
\* replaced, an invocation never ends without one, and a response of status
\* 500 is the JSON {error}.
C29_OneResponse ==
    /\ (pc # 0) ~> Responded
    /\ [](pc = 0 /\ trace # <<>> => resp # NoResponse)
    /\ [](resp.status = 500 => DOMAIN resp.body = {"error"})
    /\ [][resp # NoResponse => resp' \in {resp, NoResponse}]_vars
C29_Witness ==
    /\ Responded
    /\ resp.status = 500
    /\ req.handler = SCNFcm
    /\ outstanding # {}

-----------------------------------------------------------------------------
(* The cart activity push.                                                    *)

TokensRead == {i \in Ops({"tokensRead"}) : ~effects[i].failed}
FcmPosts == Ops({"fcm"})
FcmAnswers == Ops({"fcmDone"})
FcmThrew == {i \in FcmAnswers : effects[i].outcome = "threw"}
PostsOf(token) == {i \in FcmPosts : effects[i].token = token}
NoTokens == [status |-> 200, body |-> [message |-> "No admin tokens registered"]]
OnePostEach(rows) ==
    /\ \A k \in DOMAIN rows : Cardinality(PostsOf(rows[k])) = 1
    /\ \A i \in FcmPosts : effects[i].token \in Range(rows)

\* C30 as stated: a request to the handler that found the stored tokens has
\* sent one POST for each of them, none and the 200 message when there is no
\* token, and is answered 500 when a POST threw.
C30_Original ==
    (req.handler = SCNFcm /\ Responded) =>
        \A r \in TokensRead :
            /\ OnePostEach(effects[r].rows)
            /\ effects[r].rows = <<>> => resp = NoTokens
            /\ FcmThrew # {} => resp.status = 500

\* C30: when the token lookup has given at least one token and the payload
\* has a quantity, one POST for each token is started before the answer of
\* any is looked at, a POST that throws gives 500 with the other POSTs issued,
\* and 200 comes only after every POST has answered; a payload without
\* quantity is answered 500 before any POST; no token gives the 200 message
\* and no POST; a failed lookup gives 500 and no POST.
C30_FanOut ==
    (req.handler = SCNFcm /\ req.body.kind = "object") =>
        /\ TokensRead = {} => FcmPosts = {}
        /\ \A i \in Ops({"tokensRead"}) :
              (effects[i].failed /\ Responded) => resp.status = 500
        /\ \A r \in TokensRead :
              LET rows == effects[r].rows
              IN  IF rows = <<>>
                  THEN FcmPosts = {} /\ (Responded => resp = NoTokens)
                  ELSE IF ActivityBodyThrows(req.body)
                  THEN FcmPosts = {} /\ (Responded => resp = Caught("TypeError"))
                  ELSE /\ (FcmAnswers # {} \/ Responded) => OnePostEach(rows)
                       /\ \A p \in FcmPosts, a \in FcmAnswers : p < a
                       /\ Responded =>
                            IF FcmThrew # {}
                            THEN resp.status = 500
                            ELSE /\ resp.status = 200
                                 /\ Cardinality(FcmAnswers) = Len(rows)
C30_Witness ==
    /\ req.handler = SCNFcm
    /\ Responded
    /\ resp.status = 500
    /\ Cardinality(FcmPosts) = 2
    /\ Cardinality(FcmAnswers) = 1
    /\ FcmThrew # {}
    /\ outstanding # {}

====
